---- MODULE Spec2Model ----
(***************************************************************************)
(* Model of the tunnel relay launcher (launch / onConnection and the       *)
(* message handler it subscribes on every transport).                      *)
(*                                                                         *)
(* The handler is an async function without any await: each invocation     *)
(* runs to completion inside the subscriber call, so one message is one    *)
(* atomic step.  A throw inside it (JSON.parse, a property read on null,   *)
(* invariant(...)) rejects the promise the handler returns; the            *)
(* subscription itself is never torn down by the code.                     *)
(***************************************************************************)
EXTENDS Integers, Sequences, FiniteSets, TLC

\* ---------------------------------------------------------------- bounds

\* Number of messages delivered over all transports in one behaviour.
MaxMsgs == 4

\* The transports (accepted connections) the server hands to onConnection.
Transports == {"A", "B"}

\* Tunnel identifiers the remote peer may put in a message.
TunnelIds == {"t1", "t2"}

\* Remote ports carried by proxyCreated.
Ports == {8080, 9090}

\* Forwarded payloads carried by data.
Payloads == {"a", "b"}

\* Number of handler invocations in a behaviour that follows the handler's
\* lookup and its branch as two steps.
MaxHandlers == 3

\* Number of calls a test makes to the fake timer functions.
MaxTimerOps == 3

\* The largest deltaMs a test passes to advanceClock.
MaxDelta == 2

\* Delays a test passes to fakeSetTimeout, and to fakeSetInterval.
TimeoutMs == {0, 1, 2}
IntervalMs == {1, 2}

\* What a callback handed to the fake timer does when invoked: nothing,
\* register a timeout (with a delay, possibly negative), or clear an
\* interval.
UserCallbacks ==
  {<<"noop", 0>>, <<"setTimeout", -1>>, <<"setTimeout", 0>>,
   <<"setTimeout", 1>>, <<"clearInterval", 1>>}

\* ---------------------------------------------------------------- state

VARIABLES
  subscribed,         \* transports whose onMessage() stream has the handler
  idToSocketManager,  \* the Map tunnelId -> SocketManager (a heap reference)
  socketManagers,     \* every SocketManager constructed so far, by reference
  last,               \* the message handled by the latest step and its outcome
  createdOn,          \* history: the ids each transport sent proxyCreated for
  arrived,            \* history: per id, connection/data messages that arrived
                      \*          since the latest proxyCreated for that id
  lost,               \* transports whose connection has ended
  frames              \* handler invocations past their lookup (line 39) and
                      \* before their branch (lines 41-53)

\* faketimer.js
VARIABLES
  now,                \* let now
  timeoutCount,       \* let timeoutCount
  intervalCount,      \* let intervalCount
  timeouts,           \* let timeouts: [id, strikeTime, callback] entries
  intervalTimeouts,   \* let intervalTimeouts: interval id -> timeout id
  advance,            \* the advanceClock call in progress, if any
  timerLog            \* history of registrations, clears and invocations

\* OutlineViewCore
VARIABLES
  collapsedPaths,     \* this.state.collapsedPaths
  pendingUpdates,     \* setState updaters queued and not yet applied
  expectedCollapsed   \* history: paths collapsed and not expanded afterwards

routerVars ==
  <<subscribed, idToSocketManager, socketManagers, last, createdOn, arrived>>

timerVars ==
  <<now, timeoutCount, intervalCount, timeouts, intervalTimeouts, advance,
    timerLog>>

outlineVars == <<collapsedPaths, pendingUpdates, expectedCollapsed>>

vars == <<routerVars, lost, frames, timerVars, outlineVars>>

\* `undefined` as the result of Map.get for a missing key (?SocketManager).
NoManager == 0

\* ------------------------------------------------------- wire messages

\* Serialized payloads a transport can deliver.  A well-formed one is the
\* JSON text of an object with the fields of the wire schema; a field the
\* object does not have is 0 (remotePort) or "" (payload).
WellFormedData ==
  {<<"object", "proxyCreated", t, p, "">> : t \in TunnelIds, p \in Ports}
    \cup {<<"object", "connection", t, 0, "">> : t \in TunnelIds}
    \cup {<<"object", "data", t, 0, x>> : t \in TunnelIds, x \in Payloads}
    \cup {<<"object", "proxyClosed", t, 0, "">> : t \in TunnelIds}
    \cup {<<"object", "ping", t, 0, "">> : t \in TunnelIds}

\* The text "{}": it parses, and both message.event and message.tunnelId
\* are undefined (written "").
EmptyObjectData == {<<"object", "", "", 0, "">>}

\* Text JSON.parse rejects, and the text "null", which parses to null.
MalformedData == {<<"syntax">>, <<"null">>}

RawData == WellFormedData \cup EmptyObjectData \cup MalformedData

\* JSON.parse(data) followed by the reads of message.event and
\* message.tunnelId: TRUE when none of the three throws.
Parses(data) == data[1] = "object"

\* The object JSON.parse returns for a payload that parses.
JSONparse(data) ==
  [event |-> data[2], tunnelId |-> data[3], remotePort |-> data[4],
   payload |-> data[5]]

\* ------------------------------------------------------------ the Map

\* Map.prototype.get
MapGet(map, key) == IF key \in DOMAIN map THEN map[key] ELSE NoManager

\* Map.prototype.set
MapSet(map, key, value) ==
  [k \in DOMAIN map \cup {key} |-> IF k = key THEN value ELSE map[k]]

\* ------------------------------------------------------ SocketManager

\* new SocketManager(tunnelId, remotePort, transport); `calls` records the
\* send/close invocations the router makes on the object.
NewSocketManager(tunnelId, remotePort, transport) ==
  [tunnelId |-> tunnelId, remotePort |-> remotePort, transport |-> transport,
   calls |-> <<>>]

\* socketManager.send(message)
SocketManagerSend(sm, message) ==
  [sm EXCEPT !.calls = Append(@, <<"send", message>>)]

\* socketManager.close()
SocketManagerClose(sm) ==
  [sm EXCEPT !.calls = Append(@, <<"close">>)]

\* ---------------------------------------------------------- histories

Record(transport, data, outcome, manager) ==
  last' = [n |-> last.n + 1, transport |-> transport, data |-> data,
           outcome |-> outcome, manager |-> manager]

\* The history variables follow the arrival of `data` on `transport`,
\* whatever the handler then does with it.
Arrive(transport, data) ==
  IF ~Parses(data)
  THEN UNCHANGED <<createdOn, arrived>>
  ELSE LET message == JSONparse(data) IN
       /\ createdOn' =
            IF message.event = "proxyCreated"
            THEN [createdOn EXCEPT ![transport] = @ \cup {message.tunnelId}]
            ELSE createdOn
       /\ arrived' =
            IF message.event = "proxyCreated"
            THEN [arrived EXCEPT ![message.tunnelId] = <<>>]
            ELSE IF message.event \in {"connection", "data"}
            THEN [arrived EXCEPT ![message.tunnelId] = Append(@, message)]
            ELSE arrived

\* ------------------------------------------------------- the handler

\* Variant of Reject: the throw reaches the subscriber (a handler that is
\* not async) and ends the subscription on that transport.
RejectUnsubscribes(transport, data, error) ==
  /\ subscribed' = subscribed \ {transport}
  /\ UNCHANGED <<idToSocketManager, socketManagers>>
  /\ Record(transport, data, error, NoManager)

\* The async handler's promise rejects: nothing after the throw runs, and
\* the throw does not reach the subscriber, so the subscription stays.
Reject(transport, data, error) ==
  /\ UNCHANGED <<subscribed, idToSocketManager, socketManagers>>
  /\ Record(transport, data, error, NoManager)

\* Variant of ProxyCreated: an id that is already a key keeps its entry.
ProxyCreatedKeepsExisting(transport, data, message) ==
  /\ socketManagers' =
       Append(socketManagers,
              NewSocketManager(message.tunnelId, message.remotePort, transport))
  /\ idToSocketManager' =
       IF message.tunnelId \in DOMAIN idToSocketManager
       THEN idToSocketManager
       ELSE MapSet(idToSocketManager, message.tunnelId, Len(socketManagers) + 1)
  /\ UNCHANGED subscribed
  /\ Record(transport, data, "created", Len(socketManagers) + 1)

\* event === 'proxyCreated'
ProxyCreated(transport, data, message) ==
  /\ socketManagers' =
       Append(socketManagers,
              NewSocketManager(message.tunnelId, message.remotePort, transport))
  /\ idToSocketManager' =
       MapSet(idToSocketManager, message.tunnelId, Len(socketManagers) + 1)
  /\ UNCHANGED subscribed
  /\ Record(transport, data, "created", Len(socketManagers) + 1)

\* Variant of Forward: the message is sent to every session of the Map.
ForwardBroadcast(transport, data, message, socketManager) ==
  IF socketManager = NoManager
  THEN Reject(transport, data, "UnknownTunnel")
  ELSE /\ socketManagers' =
            [s \in DOMAIN socketManagers |->
               IF \E k \in DOMAIN idToSocketManager : idToSocketManager[k] = s
               THEN SocketManagerSend(socketManagers[s], message)
               ELSE socketManagers[s]]
       /\ UNCHANGED <<subscribed, idToSocketManager>>
       /\ Record(transport, data, "sent", socketManager)

\* Variant of Forward: a missing session is constructed on demand instead
\* of failing the invariant.
ForwardCreatesOnDemand(transport, data, message, socketManager) ==
  IF socketManager = NoManager
  THEN /\ socketManagers' =
            Append(socketManagers,
                   SocketManagerSend(
                     NewSocketManager(message.tunnelId, 0, transport), message))
       /\ idToSocketManager' =
            MapSet(idToSocketManager, message.tunnelId, Len(socketManagers) + 1)
       /\ UNCHANGED subscribed
       /\ Record(transport, data, "sent", Len(socketManagers) + 1)
  ELSE /\ socketManagers' =
            [socketManagers EXCEPT
               ![socketManager] = SocketManagerSend(@, message)]
       /\ UNCHANGED <<subscribed, idToSocketManager>>
       /\ Record(transport, data, "sent", socketManager)

\* event === 'connection' || event === 'data'
Forward(transport, data, message, socketManager) ==
  IF socketManager = NoManager
  THEN Reject(transport, data, "UnknownTunnel")
  ELSE /\ socketManagers' =
            [socketManagers EXCEPT
               ![socketManager] = SocketManagerSend(@, message)]
       /\ UNCHANGED <<subscribed, idToSocketManager>>
       /\ Record(transport, data, "sent", socketManager)

\* event === 'proxyClosed'
ProxyClosed(transport, data, message, socketManager) ==
  IF socketManager = NoManager
  THEN Reject(transport, data, "UnknownTunnel")
  ELSE /\ socketManagers' =
            [socketManagers EXCEPT ![socketManager] = SocketManagerClose(@)]
       /\ UNCHANGED <<subscribed, idToSocketManager>>
       /\ Record(transport, data, "closed", socketManager)

\* No branch of the if/else chain matches.
NoBranch(transport, data) ==
  /\ UNCHANGED <<subscribed, idToSocketManager, socketManagers>>
  /\ Record(transport, data, "ignored", NoManager)

\* Variant of Dispatch: only 'data' is forwarded, 'connection' falls through.
DispatchDataOnly(transport, data, message) ==
  LET event == message.event
      tunnelId == message.tunnelId
      socketManager == MapGet(idToSocketManager, tunnelId)
  IN  IF event = "proxyCreated"
      THEN ProxyCreated(transport, data, message)
      ELSE IF event = "data"
      THEN Forward(transport, data, message, socketManager)
      ELSE IF event = "proxyClosed"
      THEN ProxyClosed(transport, data, message, socketManager)
      ELSE NoBranch(transport, data)

\* Variant of Dispatch: the chain ends in a plain else, so every other
\* event takes the proxyClosed branch.
DispatchElseCloses(transport, data, message) ==
  LET event == message.event
      tunnelId == message.tunnelId
      socketManager == MapGet(idToSocketManager, tunnelId)
  IN  IF event = "proxyCreated"
      THEN ProxyCreated(transport, data, message)
      ELSE IF event = "connection" \/ event = "data"
      THEN Forward(transport, data, message, socketManager)
      ELSE ProxyClosed(transport, data, message, socketManager)

\* The body of the handler after JSON.parse.
Dispatch(transport, data, message) ==
  LET event == message.event
      tunnelId == message.tunnelId
      socketManager == MapGet(idToSocketManager, tunnelId)
  IN  IF event = "proxyCreated"
      THEN ProxyCreated(transport, data, message)
      ELSE IF event = "connection" \/ event = "data"
      THEN Forward(transport, data, message, socketManager)
      ELSE IF event = "proxyClosed"
      THEN ProxyClosed(transport, data, message, socketManager)
      ELSE NoBranch(transport, data)

\* ------------------------------------------------------------ actions

\* server.addSubscriber('tunnel', {onConnection(transport) {...}})
OnConnection(transport) ==
  /\ transport \notin subscribed
  /\ subscribed' = subscribed \cup {transport}
  /\ UNCHANGED <<idToSocketManager, socketManagers, last, createdOn, arrived>>

\* transport.onMessage().subscribe(async data => {...}) handling one payload
OnMessage(transport, data) ==
  /\ transport \in subscribed
  /\ last.n < MaxMsgs
  /\ Arrive(transport, data)
  /\ IF Parses(data)
     THEN Dispatch(transport, data, JSONparse(data))
     ELSE Reject(transport, data, "MalformedMessage")

\* The module state of faketimer.js as its declarations (and
\* resetTimeouts) leave it.
TimerInit ==
  /\ now = 0
  /\ timeoutCount = 0
  /\ intervalCount = 0
  /\ timeouts = <<>>
  /\ intervalTimeouts = <<>>
  /\ advance = [active |-> FALSE, advanceTo |-> 0, from |-> 0, deltaMs |-> 0]
  /\ timerLog = [set |-> <<>>, fired |-> <<>>, cleared |-> {},
                 intervals |-> <<>>, clearedIntervals |-> {}, ticks |-> <<>>,
                 calls |-> 0, targets |-> <<>>, ops |-> 0,
                 lastOp |-> <<"none">>]

\* OutlineViewCore's state initializer.
OutlineInit ==
  /\ collapsedPaths = <<>>
  /\ pendingUpdates = <<>>
  /\ expectedCollapsed = {}

\* launch(): the Map is created once, before any connection is accepted.
Init ==
  /\ TimerInit
  /\ OutlineInit
  /\ lost = {}
  /\ frames = <<>>
  /\ subscribed = {}
  /\ idToSocketManager = [k \in {} |-> NoManager]
  /\ socketManagers = <<>>
  /\ last = [n |-> 0, transport |-> "none", data |-> <<"none">>,
             outcome |-> "none", manager |-> NoManager]
  /\ createdOn = [t \in Transports |-> {}]
  /\ arrived = [t \in TunnelIds |-> <<>>]

\* What a step of the router as a whole leaves alone.
RouterOnly == UNCHANGED <<lost, frames, timerVars, outlineVars>>

Next ==
  \/ \E transport \in Transports : OnConnection(transport) /\ RouterOnly
  \/ \E transport \in Transports, data \in RawData :
        OnMessage(transport, data) /\ RouterOnly

Spec == Init /\ [][Next]_vars

\* ------------------------------------------------- connection loss

\* The transport's connection ends: its onMessage() stream delivers nothing
\* more.  The subscriber object has onConnection only and the subscribe call
\* passes a next callback only, so no code of the router runs.
ConnectionLost(transport) ==
  /\ transport \in subscribed
  /\ subscribed' = subscribed \ {transport}
  /\ lost' = lost \cup {transport}
  /\ UNCHANGED <<idToSocketManager, socketManagers, last, createdOn, arrived,
                 frames, timerVars, outlineVars>>

\* A transport object is handed to onConnection once.
NextLoss ==
  \/ \E transport \in Transports \ lost :
        OnConnection(transport) /\ RouterOnly
  \/ \E transport \in Transports, data \in RawData :
        OnMessage(transport, data) /\ RouterOnly
  \/ \E transport \in Transports :
        ConnectionLost(transport)

SpecLoss == Init /\ [][NextLoss]_vars

\* ------------------------------------- the handler as two steps

\* Variant of CanStart: a handler may start while another one is suspended
\* between its lookup and its branch (an await between lines 39 and 41).
CanStartWhileSuspended == TRUE

\* The handler has no await: the subscriber's call runs the whole body, so
\* a handler starts only when no other invocation is in progress.
CanStart == frames = <<>>

\* Lines 36-39: parse, read event and tunnelId, look the session up.
Begin(transport, data) ==
  /\ CanStart
  /\ transport \in subscribed
  /\ last.n + Len(frames) < MaxHandlers
  /\ Arrive(transport, data)
  /\ UNCHANGED <<lost, timerVars, outlineVars>>
  /\ IF Parses(data)
     THEN /\ frames' =
               Append(frames,
                      [transport |-> transport, data |-> data,
                       socketManager |->
                         MapGet(idToSocketManager, JSONparse(data).tunnelId)])
          /\ UNCHANGED <<subscribed, idToSocketManager, socketManagers, last>>
     ELSE /\ Reject(transport, data, "MalformedMessage")
          /\ UNCHANGED frames

\* Lines 41-53 with the session the lookup of line 39 returned.
Branch(transport, data, message, socketManager) ==
  LET event == message.event
  IN  IF event = "proxyCreated"
      THEN ProxyCreated(transport, data, message)
      ELSE IF event = "connection" \/ event = "data"
      THEN Forward(transport, data, message, socketManager)
      ELSE IF event = "proxyClosed"
      THEN ProxyClosed(transport, data, message, socketManager)
      ELSE NoBranch(transport, data)

\* The invocation frames[i] runs its branch and returns.
Complete(i) ==
  /\ Branch(frames[i].transport, frames[i].data, JSONparse(frames[i].data),
            frames[i].socketManager)
  /\ frames' = SubSeq(frames, 1, i - 1) \o SubSeq(frames, i + 1, Len(frames))
  /\ UNCHANGED <<lost, createdOn, arrived, timerVars, outlineVars>>

NextSteps ==
  \/ \E transport \in Transports : OnConnection(transport) /\ RouterOnly
  \/ \E transport \in Transports, data \in RawData : Begin(transport, data)
  \/ \E i \in 1..Len(frames) : Complete(i)

SpecSteps == Init /\ [][NextSteps]_vars

\* ============================================================ faketimer.js

\* The state the timer functions work on, as one record.
TimerState ==
  [now |-> now, timeoutCount |-> timeoutCount, intervalCount |-> intervalCount,
   timeouts |-> timeouts, intervalTimeouts |-> intervalTimeouts,
   log |-> timerLog]

\* The next state of the timer variables is S.
TimerBecomes(S) ==
  \E T \in {S} :
    /\ now' = T.now
    /\ timeoutCount' = T.timeoutCount
    /\ intervalCount' = T.intervalCount
    /\ timeouts' = T.timeouts
    /\ intervalTimeouts' = T.intervalTimeouts
    /\ timerLog' = T.log

\* One insertion of a stable sort by strikeTime0 - strikeTime1: the entry
\* goes behind every entry whose strike time is not greater.
InsertByStrikeTime(sorted, entry) ==
  CHOOSE result \in
    {SelectSeq(s, LAMBDA t : t[2] <= e[2]) \o <<e>>
       \o SelectSeq(s, LAMBDA t : t[2] > e[2]) :
     s \in {sorted}, e \in {entry}} : TRUE

\* timeouts.sort(([id0, strikeTime0, cb0], [id1, strikeTime1, cb1]) =>
\*   strikeTime0 - strikeTime1), as a stable sort.
RECURSIVE SortByStrikeTime(_)
SortByStrikeTime(entries) ==
  CHOOSE result \in
    {IF e = <<>> THEN <<>>
     ELSE InsertByStrikeTime(SortByStrikeTime(SubSeq(e, 1, Len(e) - 1)),
                             e[Len(e)]) :
     e \in {entries}} : TRUE

\* The interval a queued callback belongs to (0 for a plain callback).
IntervalOf(callback) == IF callback[1] = "action" THEN callback[2] ELSE 0

\* Timeout ids in the queue.
Pending(S) == {S.timeouts[i][1] : i \in 1..Len(S.timeouts)}

\* Variant of FakeSetTimeout: the strike time is ms, not now + ms.
FakeSetTimeoutFromZero(S, callback, ms) ==
  LET id == S.timeoutCount + 1
  IN  [S EXCEPT
         !.timeoutCount = id,
         !.timeouts = SortByStrikeTime(Append(@, <<id, ms, callback>>)),
         !.log.set = Append(@, [strikeTime |-> ms, at |-> S.now,
                                interval |-> IntervalOf(callback),
                                call |-> S.log.calls,
                                inCall |-> advance.active])]

\* fakeSetTimeout(callback, ms); the id it returns is the new timeoutCount.
FakeSetTimeout(S, callback, ms) ==
  LET id == S.timeoutCount + 1
  IN  [S EXCEPT
         !.timeoutCount = id,
         !.timeouts = SortByStrikeTime(Append(@, <<id, S.now + ms, callback>>)),
         !.log.set = Append(@, [strikeTime |-> S.now + ms, at |-> S.now,
                                interval |-> IntervalOf(callback),
                                call |-> S.log.calls,
                                inCall |-> advance.active])]

\* Variant of FakeClearTimeout: filters with id < idToClear, dropping the
\* later timeouts as well.
FakeClearTimeoutAndLater(S, idToClear) ==
  [S EXCEPT
     !.timeouts = SelectSeq(@, LAMBDA t : t[1] < idToClear),
     !.log.cleared = @ \cup ({idToClear} \cap Pending(S))]

\* fakeClearTimeout(idToClear)
FakeClearTimeout(S, idToClear) ==
  [S EXCEPT
     !.timeouts = SelectSeq(@, LAMBDA t : t[1] # idToClear),
     !.log.cleared = @ \cup ({idToClear} \cap Pending(S))]

\* intervalTimeouts[id] = value
SetIntervalTimeout(map, id, value) ==
  [k \in DOMAIN map \cup {id} |-> IF k = id THEN value ELSE map[k]]

\* fakeSetInterval(callback, ms); the id it returns is the new
\* intervalCount.  The queued `action` carries the interval's id, ms and
\* callback, which the closure captures.
FakeSetInterval(S, callback, ms) ==
  LET id == S.intervalCount + 1
      action == <<"action", id, ms, callback>>
      S1 == [S EXCEPT !.intervalCount = id,
                      !.log.intervals = Append(@, [ms |-> ms, at |-> S.now])]
      S2 == FakeSetTimeout(S1, action, ms)
  IN  [S2 EXCEPT
         !.intervalTimeouts = SetIntervalTimeout(@, id, S2.timeoutCount)]

\* fakeClearInterval(idToClear); intervalTimeouts[idToClear] is undefined
\* for an id that is no interval, and the filter then removes nothing.
FakeClearInterval(S, idToClear) ==
  IF idToClear \in DOMAIN S.intervalTimeouts
  THEN [FakeClearTimeout(S, S.intervalTimeouts[idToClear]) EXCEPT
          !.log.clearedIntervals = @ \cup {idToClear}]
  ELSE S

\* callback() for a callback a test handed in.
RunCallback(S, callback) ==
  IF callback[1] = "setTimeout"
  THEN FakeSetTimeout(S, <<"plain", <<"noop", 0>>>>, callback[2])
  ELSE IF callback[1] = "clearInterval"
  THEN FakeClearInterval(S, callback[2])
  ELSE S

\* The closure `action` of fakeSetInterval: callback(), then
\* intervalTimeouts[id] = fakeSetTimeout(action, ms).
RunAction(S, action) ==
  LET id == action[2]
      S0 == [S EXCEPT !.log.ticks =
                Append(@, [interval |-> id, now |-> S.now,
                           afterClear |-> id \in S.log.clearedIntervals])]
      S1 == RunCallback(S0, action[4])
      S2 == FakeSetTimeout(S1, action, action[3])
  IN  [S2 EXCEPT
         !.intervalTimeouts = SetIntervalTimeout(@, id, S2.timeoutCount)]

\* callback() in advanceClock for the queue entry's third component.
Invoke(S, callback) ==
  IF callback[1] = "action"
  THEN RunAction(S, callback)
  ELSE RunCallback(S, callback[2])

\* Variant of Due: the loop tests timeouts[0][1] < advanceTo.
DueBefore(queue, advanceTo) ==
  queue # <<>> /\ queue[1][2] < advanceTo

\* The while condition of advanceClock.
Due(queue, advanceTo) ==
  queue # <<>> /\ queue[1][2] <= advanceTo

\* ---- what a test does between advanceClock calls

TimerIdle == ~advance.active /\ timerLog.ops < MaxTimerOps

\* The history notes the call a test makes.
Called(S, op) == [S EXCEPT !.log.ops = @ + 1, !.log.lastOp = op]

TimerOnly == UNCHANGED <<routerVars, lost, frames, outlineVars>>

SetTimeout(callback, ms) ==
  /\ TimerIdle
  /\ TimerBecomes(FakeSetTimeout(Called(TimerState, <<"setTimeout">>),
                                 <<"plain", callback>>, ms))
  /\ UNCHANGED advance

ClearTimeout(idToClear) ==
  /\ TimerIdle
  /\ TimerBecomes(FakeClearTimeout(
                    Called(TimerState, <<"clearTimeout", idToClear>>),
                    idToClear))
  /\ UNCHANGED advance

SetInterval(callback, ms) ==
  /\ TimerIdle
  /\ TimerBecomes(FakeSetInterval(Called(TimerState, <<"setInterval">>),
                                  callback, ms))
  /\ UNCHANGED advance

ClearInterval(idToClear) ==
  /\ TimerIdle
  /\ TimerBecomes(FakeClearInterval(
                    Called(TimerState, <<"clearInterval", idToClear>>),
                    idToClear))
  /\ UNCHANGED advance

\* advanceClock(deltaMs): const advanceTo = now + deltaMs
AdvanceClock(deltaMs) ==
  /\ TimerIdle
  /\ advance' = [active |-> TRUE, advanceTo |-> now + deltaMs, from |-> now,
                 deltaMs |-> deltaMs]
  /\ TimerBecomes([Called(TimerState, <<"advanceClock">>) EXCEPT
                     !.log.calls = @ + 1,
                     !.log.targets = Append(@, now + deltaMs)])

\* One evaluation of the while condition of advanceClock: either one turn
\* of the loop (shift, now = strikeTime, callback()), or the exit with
\* now = advanceTo.
AdvanceLoop ==
  /\ advance.active
  /\ IF Due(timeouts, advance.advanceTo)
     THEN LET entry == Head(timeouts)
              S1 == [TimerState EXCEPT !.timeouts = Tail(@), !.now = entry[2]]
              S == [S1 EXCEPT
                      !.log.lastOp = <<"callback", entry[1]>>,
                      !.log.fired =
                        Append(@, [id |-> entry[1], now |-> S1.now,
                                   advanceTo |-> advance.advanceTo,
                                   call |-> timerLog.calls])]
          IN  /\ TimerBecomes(Invoke(S, entry[3]))
              /\ UNCHANGED advance
     ELSE /\ TimerBecomes([TimerState EXCEPT !.now = advance.advanceTo,
                                             !.log.lastOp = <<"return">>])
          /\ advance' = [advance EXCEPT !.active = FALSE]

NextTimer ==
  \/ \E callback \in UserCallbacks, ms \in TimeoutMs :
        SetTimeout(callback, ms) /\ TimerOnly
  \/ \E id \in 1..(timeoutCount + 1) : ClearTimeout(id) /\ TimerOnly
  \/ \E callback \in UserCallbacks, ms \in IntervalMs :
        SetInterval(callback, ms) /\ TimerOnly
  \/ \E id \in 1..(intervalCount + 1) : ClearInterval(id) /\ TimerOnly
  \/ \E deltaMs \in 0..MaxDelta : AdvanceClock(deltaMs) /\ TimerOnly
  \/ AdvanceLoop /\ TimerOnly

SpecTimer == Init /\ [][NextTimer]_vars

\* advanceClock is a synchronous loop: once called it keeps running until
\* its while condition is false.
SpecTimerFair == SpecTimer /\ WF_vars(AdvanceLoop /\ TimerOnly)

\* ------------------------------------------------- reading the state

\* The message of the latest handled payload and its tunnel id.
LastParses == last.n > 0 /\ Parses(last.data)
LastMessage == JSONparse(last.data)

\* close() has been invoked on the SocketManager.
Closed(sm) == \E i \in 1..Len(sm.calls) : sm.calls[i][1] = "close"

\* The messages passed to send() of the SocketManager, in call order.
RECURSIVE SentOf(_)
SentOf(calls) ==
  IF calls = <<>> THEN <<>>
  ELSE IF Head(calls)[1] = "send"
       THEN <<Head(calls)[2]>> \o SentOf(Tail(calls))
       ELSE SentOf(Tail(calls))

\* The references of all SocketManagers constructed so far.
Managers == 1..Len(socketManagers)

\* ------------------------------------------------------------- claims

\* C1: once proxyClosed(id) has been handled for an id that had a session,
\* id is not a key of the table, and a connection/data message is never
\* passed to send() of a session that proxyClosed has already closed.
C1_ClosedIdLeavesTable ==
  /\ (LastParses /\ last.outcome = "closed")
       => LastMessage.tunnelId \notin DOMAIN idToSocketManager
  /\ (LastParses /\ last.outcome = "sent")
       => LET calls == socketManagers[last.manager].calls
          IN  \A i \in 1..(Len(calls) - 1) : calls[i][1] # "close"

\* C2: every transport has its own table: a connection/data/proxyClosed
\* message on a transport finds a session only if that same transport sent
\* proxyCreated for the id, and the entry a transport created for an id is
\* not replaced by a proxyCreated for that id on another transport.
C2_TablePerConnection ==
  /\ (LastParses /\ last.outcome \in {"sent", "closed"})
       => LastMessage.tunnelId \in createdOn[last.transport]
  /\ \A t \in Transports : \A id \in createdOn[t] :
       id \in DOMAIN idToSocketManager
         => socketManagers[idToSocketManager[id]].transport = t

\* C4: close() is invoked at most once on every session, and neither send()
\* nor close() is invoked on a session after its close().
C4_ClosedOnceNeverUsedAfter ==
  \A s \in Managers :
    LET calls == socketManagers[s].calls
    IN  \A i \in 1..Len(calls) : calls[i][1] = "close" => i = Len(calls)

\* C5: for every tunnel id at most one session constructed for it has not
\* been closed.
C5_AtMostOneLivePerId ==
  \A id \in TunnelIds :
    Cardinality({s \in Managers :
                   /\ socketManagers[s].tunnelId = id
                   /\ ~Closed(socketManagers[s])}) <= 1

\* ------------------------------------------- claims about one step

\* A step that handles one payload, and the message it handled.
Handled == last'.n # last.n
HandledParses == Handled /\ Parses(last'.data)
HandledMessage == JSONparse(last'.data)

\* The references the Map holds.
Registered == {idToSocketManager[k] : k \in DOMAIN idToSocketManager}

\* C3: the session that is in the table for an id, as long as it has not
\* been closed, has been passed exactly the connection/data messages that
\* arrived for the id since the proxyCreated that constructed it: each once,
\* whole, and in arrival order.
C3_ForwardedInArrivalOrder ==
  \A id \in DOMAIN idToSocketManager :
    LET sm == socketManagers[idToSocketManager[id]]
    IN  ~Closed(sm) => SentOf(sm.calls) = arrived[id]

\* C3 witness: a live session has been passed two different messages.
C3_Witness ==
  \E id \in DOMAIN idToSocketManager :
    LET sm == socketManagers[idToSocketManager[id]]
    IN  /\ ~Closed(sm)
        /\ Len(sm.calls) >= 2
        /\ sm.calls[1] # sm.calls[2]
        /\ SentOf(sm.calls) = arrived[id]

\* C6: handling a message whose tunnelId is A leaves every other id B
\* alone: B's presence in the table and its entry are unchanged, no call is
\* made on any session constructed for B, and no session is constructed for B.
C6_IdsIndependent ==
  [][HandledParses =>
       \A B \in TunnelIds \ {HandledMessage.tunnelId} :
         /\ (B \in DOMAIN idToSocketManager') = (B \in DOMAIN idToSocketManager)
         /\ MapGet(idToSocketManager', B) = MapGet(idToSocketManager, B)
         /\ \A s \in Managers :
              socketManagers[s].tunnelId = B
                => socketManagers'[s] = socketManagers[s]
         /\ \A s \in 1..Len(socketManagers') :
              s \notin Managers => socketManagers'[s].tunnelId # B]_vars

\* C6 witness: a message for one id has been sent or has closed a session
\* while another id has a session in the table.
C6_Witness ==
  /\ LastParses
  /\ last.outcome \in {"sent", "closed"}
  /\ \E B \in DOMAIN idToSocketManager : B # LastMessage.tunnelId

\* C7: a connection, data or proxyClosed message for an id no transport
\* ever sent proxyCreated for fails with UnknownTunnel: the table and every
\* session are unchanged and no session is constructed.
C7_NeverCreatedIsUnknownTunnel ==
  [][(/\ HandledParses
      /\ HandledMessage.event \in {"connection", "data", "proxyClosed"}
      /\ \A t \in Transports : HandledMessage.tunnelId \notin createdOn[t])
       => /\ last'.outcome = "UnknownTunnel"
          /\ idToSocketManager' = idToSocketManager
          /\ socketManagers' = socketManagers]_vars

\* C7 witness: a proxyClosed for a never-created id has failed while another
\* id has a session.
C7_Witness ==
  /\ LastParses
  /\ last.outcome = "UnknownTunnel"
  /\ LastMessage.event = "proxyClosed"
  /\ \A t \in Transports : LastMessage.tunnelId \notin createdOn[t]
  /\ DOMAIN idToSocketManager # {}

\* C8: a proxyCreated for an id that is in the table puts a newly
\* constructed session (no calls yet, the new port) under the id and makes
\* no call on the old one; and a session that is no longer in the table is
\* never passed a message or closed by a later step.
C8_RecreateReplaces ==
  [][Handled =>
       /\ (/\ Parses(last'.data)
           /\ HandledMessage.event = "proxyCreated"
           /\ HandledMessage.tunnelId \in DOMAIN idToSocketManager)
            => LET id == HandledMessage.tunnelId
                   old == idToSocketManager[id]
                   new == MapGet(idToSocketManager', id)
               IN  /\ new \notin Managers
                   /\ new \in 1..Len(socketManagers')
                   /\ socketManagers'[new] =
                        NewSocketManager(id, HandledMessage.remotePort,
                                         last'.transport)
                   /\ socketManagers'[old] = socketManagers[old]
       /\ \A s \in Managers \ Registered :
            socketManagers'[s] = socketManagers[s]]_vars

\* C8 witness: after two proxyCreated for one id with different ports, a
\* message has been sent to the second session and the first has no call.
C8_Witness ==
  /\ LastParses
  /\ last.outcome = "sent"
  /\ \E s \in Managers :
       /\ s < last.manager
       /\ socketManagers[s].tunnelId = LastMessage.tunnelId
       /\ socketManagers[s].remotePort # socketManagers[last.manager].remotePort
       /\ socketManagers[s].calls = <<>>

\* The payload fails in the state it arrives in: it does not parse, or it
\* is a connection/data/proxyClosed for an id that is not in the table.
Fails(data) ==
  \/ ~Parses(data)
  \/ /\ JSONparse(data).event \in {"connection", "data", "proxyClosed"}
     /\ JSONparse(data).tunnelId \notin DOMAIN idToSocketManager

\* C9: a failing message is a failure of that message only: the table, all
\* sessions and the subscriptions are as before it, so the messages after it
\* are handled from the same state as if it had not arrived.
C9_FailureIsPerMessage ==
  [][(Handled /\ Fails(last'.data))
       => /\ last'.outcome =
               IF Parses(last'.data) THEN "UnknownTunnel" ELSE "MalformedMessage"
          /\ idToSocketManager' = idToSocketManager
          /\ socketManagers' = socketManagers
          /\ subscribed' = subscribed
          /\ last'.transport \in subscribed']_vars

\* C9 witness: a payload that does not parse has failed on a transport
\* while both transports are subscribed and a session is in the table.
C9_Witness ==
  /\ last.outcome = "MalformedMessage"
  /\ subscribed = Transports
  /\ DOMAIN idToSocketManager # {}

\* C10: a message that parses and whose event is none of the four known
\* ones changes nothing: same table, same sessions, none constructed, no
\* call made, subscriptions kept.
C10_OtherEventIgnored ==
  [][(/\ HandledParses
      /\ HandledMessage.event \notin
           {"proxyCreated", "connection", "data", "proxyClosed"})
       => /\ last'.outcome = "ignored"
          /\ idToSocketManager' = idToSocketManager
          /\ socketManagers' = socketManagers
          /\ subscribed' = subscribed]_vars

\* C10 witness: such a message has been ignored for an id that is in the
\* table.
C10_Witness ==
  /\ LastParses
  /\ last.outcome = "ignored"
  /\ LastMessage.tunnelId \in DOMAIN idToSocketManager

\* C11: once every transport's connection has ended, so that no handler
\* will run again, close() has been invoked on every session that is still
\* in the table and was constructed on a lost transport.
C11_LostConnectionClosesSessions ==
  (lost = Transports)
    => \A s \in Registered :
         socketManagers[s].transport \in lost => Closed(socketManagers[s])

\* C13: when a handler calls send() or close(), the session it calls is the
\* one the table holds under the message's tunnelId at that moment.
C13_LookupAndCallAtomic ==
  [][(Handled /\ last'.outcome \in {"sent", "closed"})
       => /\ last'.manager = MapGet(idToSocketManager, HandledMessage.tunnelId)
          /\ last'.manager = MapGet(idToSocketManager', HandledMessage.tunnelId)
    ]_vars

\* C13 witness: a handler has closed a session, run in two steps, while
\* both tunnel ids have a session in the table.
C13_Witness ==
  /\ LastParses
  /\ last.outcome = "closed"
  /\ frames = <<>>
  /\ DOMAIN idToSocketManager = TunnelIds

\* ------------------------------------------- claims about the fake timer

\* The invocations recorded for a timeout id.
FiresOf(id) == {i \in 1..Len(timerLog.fired) : timerLog.fired[i].id = id}

\* The first advanceClock call that can fire the timeout: the call that was
\* running when it was registered, or else the next call.
FirstCallFor(id) ==
  IF timerLog.set[id].inCall
  THEN timerLog.set[id].call
  ELSE timerLog.set[id].call + 1

\* The advanceClock calls that have returned.
ReturnedCalls == IF advance.active THEN timerLog.calls - 1 ELSE timerLog.calls

\* C12: a timeout that was registered and not cleared is in the queue until
\* it is invoked and is invoked at most once; no advanceClock call whose
\* target is below its strike time invokes it; and it is invoked during the
\* first call whose target reaches its strike time, so it is not pending
\* after such a call has returned.
C12_TimeoutFiresExactlyOnce ==
  \A id \in 1..timeoutCount :
    LET strike == timerLog.set[id].strikeTime
    IN  /\ Cardinality(FiresOf(id)) <= 1
        /\ \A i \in FiresOf(id) :
             /\ timerLog.fired[i].advanceTo >= strike
             /\ \A c \in FirstCallFor(id)..(timerLog.fired[i].call - 1) :
                  timerLog.targets[c] < strike
        /\ id \notin timerLog.cleared
             => /\ (id \in Pending(TimerState)) = (FiresOf(id) = {})
                /\ id \in Pending(TimerState)
                     => \A c \in FirstCallFor(id)..ReturnedCalls :
                          timerLog.targets[c] < strike

\* C12 witness: a timeout registered between calls was left alone by one
\* advanceClock call and invoked by a later one that has returned.
C12_Witness ==
  /\ ~advance.active
  /\ \E i \in 1..Len(timerLog.fired) :
       LET id == timerLog.fired[i].id
       IN  /\ ~timerLog.set[id].inCall
           /\ timerLog.fired[i].call > FirstCallFor(id)
           /\ timerLog.set[id].interval = 0

\* C14: the callback of an interval is never invoked once
\* fakeClearInterval has been called for the interval.
C14_ClearedIntervalNeverFires ==
  \A i \in 1..Len(timerLog.ticks) : ~timerLog.ticks[i].afterClear

\* A step in which a test calls fakeClearTimeout, and the id it passes.
ClearTimeoutCalled ==
  timerLog'.ops # timerLog.ops /\ timerLog'.lastOp[1] = "clearTimeout"

\* C15: a fakeClearTimeout(id) call takes the entry with that id out of the
\* queue and leaves every other entry as it is and in the same relative
\* position, changes nothing else, and changes nothing at all when id is
\* not pending; and a timeout that was cleared while pending is never
\* invoked afterwards.
C15_ClearRemovesExactlyThatTimeout ==
  [][/\ ClearTimeoutCalled =>
          LET id == timerLog'.lastOp[2]
          IN  /\ id \notin Pending(TimerState)'
              /\ UNCHANGED <<now, timeoutCount, intervalCount, intervalTimeouts>>
              /\ id \notin Pending(TimerState) => timeouts' = timeouts
              /\ id \in Pending(TimerState) =>
                   \E pos \in 1..Len(timeouts) :
                     /\ timeouts[pos][1] = id
                     /\ Len(timeouts') = Len(timeouts) - 1
                     /\ \A i \in 1..Len(timeouts') :
                          timeouts'[i] = timeouts[IF i < pos THEN i ELSE i + 1]
     /\ \A id \in timerLog.cleared : FiresOf(id)' = FiresOf(id)]_vars

\* C15 witness: a pending timeout has just been cleared by a test and
\* another timeout is still pending.
C15_Witness ==
  /\ timeouts # <<>>
  /\ \E id \in timerLog.cleared : timerLog.lastOp = <<"clearTimeout", id>>

\* C16: within one advanceClock call callbacks are invoked in
\* non-decreasing order of strike time, ties in registration order; every
\* callback runs with now equal to its strike time; and when the call
\* returns, now is its value at the call plus deltaMs and no pending timeout
\* has a strike time <= now (so a timer a callback registered with a strike
\* time within the target has been invoked in the same call).
C16_FiredInStrikeOrder ==
  /\ \A i, j \in 1..Len(timerLog.fired) :
       (i < j /\ timerLog.fired[i].call = timerLog.fired[j].call)
         => LET a == timerLog.fired[i].id
                b == timerLog.fired[j].id
            IN  /\ timerLog.set[a].strikeTime <= timerLog.set[b].strikeTime
                /\ timerLog.set[a].strikeTime = timerLog.set[b].strikeTime
                     => a < b
  /\ \A i \in 1..Len(timerLog.fired) :
       timerLog.fired[i].now = timerLog.set[timerLog.fired[i].id].strikeTime
  /\ timerLog.lastOp = <<"return">>
       => /\ now = advance.from + advance.deltaMs
          /\ \A i \in 1..Len(timeouts) : timeouts[i][2] > now

\* The invocations of the callback of interval k, in order.
TicksOf(k) == SelectSeq(timerLog.ticks, LAMBDA x : x.interval = k)

\* Interval k was never cleared: neither by fakeClearInterval nor by a
\* fakeClearTimeout of the timeout that carries it.
NeverCleared(k) ==
  /\ k \notin timerLog.clearedIntervals
  /\ \A id \in timerLog.cleared : timerLog.set[id].interval # k

\* The invocations of a never-cleared interval are at t+ms, t+2*ms, ...,
\* and between advanceClock calls there are floor((now - t) / ms) of them.
IntervalTicksOnSchedule ==
  \A k \in 1..intervalCount :
    NeverCleared(k) =>
      LET t == timerLog.intervals[k].at
          ms == timerLog.intervals[k].ms
          ticks == TicksOf(k)
      IN  /\ \A j \in 1..Len(ticks) : ticks[j].now = t + j * ms
          /\ ~advance.active => Len(ticks) = (now - t) \div ms

\* C17: a never-cleared interval with ms >= 1 has been invoked
\* floor((T - t) / ms) times, at t+ms, t+2*ms, ..., whenever the clock
\* stands at T between advanceClock calls, and every advanceClock call
\* returns.
C17_IntervalCountAndTermination ==
  /\ []IntervalTicksOnSchedule
  /\ (advance.active ~> ~advance.active)

\* C17 witness: a never-cleared interval has been invoked in two different
\* advanceClock calls.
C17_Witness ==
  /\ ~advance.active
  /\ \E i, j \in 1..Len(timerLog.fired) :
       LET a == timerLog.fired[i].id
           b == timerLog.fired[j].id
       IN  /\ timerLog.fired[i].call < timerLog.fired[j].call
           /\ timerLog.set[a].interval # 0
           /\ timerLog.set[a].interval = timerLog.set[b].interval
           /\ NeverCleared(timerLog.set[a].interval)

\* ------------------------------------------------- OutlineViewCore

\* setState calls that may be queued before React applies them.
MaxPending == 2

\* Node paths of a small outline: two root nodes and a child of the first.
NodePaths == {<<0>>, <<0, 1>>, <<1>>}

OutlineOnly == UNCHANGED <<routerVars, lost, frames, timerVars>>

\* The updater of _handleCollapse.  It is handed prevState but looks the
\* path up in, and appends it to, this.state.collapsedPaths; it returns
\* nothing, which leaves the state as it is, when the path is found.
CollapseUpdater(prevState, thisState, nodePath) ==
  IF \E i \in 1..Len(thisState) : thisState[i] = nodePath
  THEN prevState
  ELSE Append(thisState, nodePath)

\* The updater of _handleExpand: prevState.collapsedPaths.filter(...)
ExpandUpdater(prevState, nodePath) ==
  SelectSeq(prevState, LAMBDA p : p # nodePath)

ApplyUpdate(prevState, thisState, update) ==
  IF update[1] = "collapse"
  THEN CollapseUpdater(prevState, thisState, update[2])
  ELSE ExpandUpdater(prevState, update[2])

\* React applies the queued updaters in order, each on the result of the
\* one before; this.state stays the committed state until all have run.
RECURSIVE ProcessUpdateQueue(_, _, _)
ProcessUpdateQueue(prevState, thisState, queue) ==
  IF queue = <<>> THEN prevState
  ELSE ProcessUpdateQueue(ApplyUpdate(prevState, thisState, Head(queue)),
                          thisState, Tail(queue))

\* _handleCollapse(nodePath): this.setState(updater)
HandleCollapse(nodePath) ==
  /\ Len(pendingUpdates) < MaxPending
  /\ pendingUpdates' = Append(pendingUpdates, <<"collapse", nodePath>>)
  /\ expectedCollapsed' = expectedCollapsed \cup {nodePath}
  /\ UNCHANGED collapsedPaths

\* _handleExpand(nodePath): this.setState(updater)
HandleExpand(nodePath) ==
  /\ Len(pendingUpdates) < MaxPending
  /\ pendingUpdates' = Append(pendingUpdates, <<"expand", nodePath>>)
  /\ expectedCollapsed' = expectedCollapsed \ {nodePath}
  /\ UNCHANGED collapsedPaths

\* React applies what is queued: one update when setState is not batched,
\* several when the calls were made within one batch.
Flush ==
  /\ pendingUpdates # <<>>
  /\ collapsedPaths' =
       ProcessUpdateQueue(collapsedPaths, collapsedPaths, pendingUpdates)
  /\ pendingUpdates' = <<>>
  /\ UNCHANGED expectedCollapsed

NextOutline ==
  \/ \E nodePath \in NodePaths : HandleCollapse(nodePath) /\ OutlineOnly
  \/ \E nodePath \in NodePaths : HandleExpand(nodePath) /\ OutlineOnly
  \/ Flush /\ OutlineOnly

SpecOutline == Init /\ [][NextOutline]_vars

\* C18: once every queued update has been applied, collapsedPaths holds
\* exactly the node paths that were collapsed and not expanded afterwards,
\* each of them once.
C18_CollapsedPathsExact ==
  pendingUpdates = <<>> =>
    /\ {collapsedPaths[i] : i \in 1..Len(collapsedPaths)} = expectedCollapsed
    /\ \A i, j \in 1..Len(collapsedPaths) :
         collapsedPaths[i] = collapsedPaths[j] => i = j

====
